---- MODULE Spec2Model ----
(***************************************************************************)
(* State-machine model of the workflow engine of the AI gateway            *)
(* (services/ai-gateway/core/workflow_engine.py): the workflow store,      *)
(* create_workflow, execute_workflow and the helpers they call.            *)
(*                                                                         *)
(* Python strings that the code takes apart (parameter values, context     *)
(* keys, step ids) are sequences of symbols; a symbol is one character or  *)
(* one word that the code never splits.  A Python value carries a tag      *)
(* (kind) so that isinstance tests can be modelled.                        *)
(***************************************************************************)
EXTENDS Integers, Sequences, FiniteSets, TLC

\* ------------------------------------------------------------------ bounds
MaxClock == 1
MaxChain == 101
MaxCreates == 2
MaxStrLen == 4
MaxAnalyzeSteps == 3
MaxIter == 103
MaxCompileSteps == 5
MaxFragments == 4
MaxCommandFragments == 3

\* ------------------------------------------------------- program constants
\* `if step_index > 100` in execute_workflow
StepLimit == 100
\* `resolved_params.get('duration', 1)` in _execute_step
DefaultDuration == 1

\* ------------------------------------------------------------------ values
Str(s) == [kind |-> "str", s |-> s]
Num(n) == [kind |-> "num", n |-> n]
Time(t) == [kind |-> "datetime", t |-> t]

EmptyMap == [k \in {} |-> 0]

\* dict.get(key, default)
Get(d, key, default) == IF key \in DOMAIN d THEN d[key] ELSE default

\* {**d, key: value}
Put(d, key, value) ==
    [k \in DOMAIN d \cup {key} |-> IF k = key THEN value ELSE d[k]]

\* str.startswith(prefix)
Startswith(s, prefix) ==
    /\ Len(s) >= Len(prefix)
    /\ SubSeq(s, 1, Len(prefix)) = prefix

\* str.endswith(suffix)
Endswith(s, suffix) ==
    /\ Len(s) >= Len(suffix)
    /\ SubSeq(s, Len(s) - Len(suffix) + 1, Len(s)) = suffix

\* value[2:-1]
Slice2ToLast(s) == SubSeq(s, 3, Len(s) - 1)

IsTemplateMutNoEndswith(value) ==
    /\ value.kind = "str"
    /\ Startswith(value.s, <<"$", "{">>)

\* isinstance(value, str) and value.startswith('${') and value.endswith('}')
IsTemplate(value) ==
    /\ value.kind = "str"
    /\ Startswith(value.s, <<"$", "{">>)
    /\ Endswith(value.s, <<"}">>)

\* WorkflowEngine._resolve_parameters
ResolveParameters(parameters, context) ==
    [key \in DOMAIN parameters |->
        LET value == parameters[key] IN
        IF IsTemplate(value)
        THEN Get(context, Slice2ToLast(value.s), value)
        ELSE value]

\* ------------------------------------------------------------------- steps
\* A step dict.  nextStep = <<>> stands for a missing, None or empty
\* nextStep: `not current_step.get('nextStep')` is true of all three.
Step(id, type, action, parameters, nextStep) ==
    [id |-> id, type |-> type, action |-> action,
     parameters |-> parameters, nextStep |-> nextStep]

NoStep == [none |-> TRUE]

\* asyncio.sleep(delay) compares delay with 0: a TypeError unless a number
IsNumber(value) == value.kind = "num"

Ok(value) == [ok |-> TRUE, value |-> value]
Raise(error) == [ok |-> FALSE, error |-> error]

ExecuteStepMutConditionPasses(step, context) ==
    LET resolved_params == ResolveParameters(step.parameters, context) IN
    CASE step.type \in {"command", "condition"} ->
            Ok([kind |-> "dict", command |-> step.action,
                parameters |-> resolved_params, status |-> "executed"])
      [] step.type \in {"file_operation", "app_operation"} ->
            Ok([kind |-> "dict", operation |-> step.action,
                parameters |-> resolved_params, status |-> "executed"])
      [] step.type = "delay" ->
            LET duration == Get(resolved_params, "duration", Num(DefaultDuration)) IN
            IF IsNumber(duration)
            THEN Ok([kind |-> "dict", status |-> "delayed", duration |-> duration])
            ELSE Raise("TypeError")
      [] OTHER -> Raise("ValueError: Unknown step type")

ExecuteStepMutSwallowUnknown(step, context) ==
    LET resolved_params == ResolveParameters(step.parameters, context) IN
    IF step.type = "delay"
    THEN LET duration == Get(resolved_params, "duration", Num(DefaultDuration)) IN
         IF IsNumber(duration)
         THEN Ok([kind |-> "dict", status |-> "delayed", duration |-> duration])
         ELSE Raise("TypeError")
    ELSE Ok([kind |-> "dict", command |-> step.action,
             parameters |-> resolved_params, status |-> "executed"])

\* WorkflowEngine._execute_step with the three executors it dispatches to
ExecuteStep(step, context) ==
    LET resolved_params == ResolveParameters(step.parameters, context) IN
    CASE step.type = "command" ->
            Ok([kind |-> "dict", command |-> step.action,
                parameters |-> resolved_params, status |-> "executed"])
      [] step.type \in {"file_operation", "app_operation"} ->
            Ok([kind |-> "dict", operation |-> step.action,
                parameters |-> resolved_params, status |-> "executed"])
      [] step.type = "delay" ->
            LET duration == Get(resolved_params, "duration", Num(DefaultDuration)) IN
            IF IsNumber(duration)
            THEN Ok([kind |-> "dict", status |-> "delayed", duration |-> duration])
            ELSE Raise("TypeError")
      [] OTHER -> Raise("ValueError: Unknown step type")

GetNextStepMutDanglingRestarts(steps, current_step) ==
    IF current_step.nextStep = <<>>
    THEN NoStep
    ELSE LET hits == {i \in 1..Len(steps) : steps[i].id = current_step.nextStep} IN
         IF hits = {}
         THEN steps[1]
         ELSE steps[CHOOSE i \in hits : \A j \in hits : i <= j]

GetNextStepMutNoMatch(steps, current_step) == NoStep

\* WorkflowEngine._get_next_step: the first step with the id, else None
GetNextStep(steps, current_step) ==
    IF current_step.nextStep = <<>>
    THEN NoStep
    ELSE LET hits == {i \in 1..Len(steps) : steps[i].id = current_step.nextStep} IN
         IF hits = {}
         THEN NoStep
         ELSE steps[CHOOSE i \in hits : \A j \in hits : i <= j]

SafetyLimitHitMutNever(index) == FALSE

\* `if step_index > 100: break`
SafetyLimitHit(index) == index > StepLimit

\* ------------------------------------------------------ workflow analysis
\* WorkflowEngine._calculate_complexity, in hundredths:
\* round(min(1.0, 0.1 * steps + 0.4 * conditionals + 0.5 * external), 2)
Min(a, b) == IF a <= b THEN a ELSE b

CountType(steps, types) ==
    Cardinality({i \in 1..Len(steps) : steps[i].type \in types})

CalculateComplexityMutNoClamp(steps) ==
    10 * Len(steps)
        + 40 * CountType(steps, {"condition"})
        + 50 * CountType(steps, {"app_operation", "file_operation"})

CalculateComplexity(steps) ==
    Min(100, 10 * Len(steps)
             + 40 * CountType(steps, {"condition"})
             + 50 * CountType(steps, {"app_operation", "file_operation"}))

MergeFileOperationsMutKeepsNext(step1, step2) ==
    [id |-> step1.id \o <<"_merged">>,
     type |-> "file_operation",
     action |-> "batch_operation",
     parameters |->
        [k \in {"operations", "description"} |->
            IF k = "operations"
            THEN [kind |-> "list", items |-> <<step1, step2>>]
            ELSE Str(<<"Merged ", step1.action, " and ", step2.action>>)],
     nextStep |-> step2.nextStep]

MergeFileOperationsMutFirstTwice(step1, step2) ==
    [id |-> step1.id \o <<"_merged">>,
     type |-> "file_operation",
     action |-> "batch_operation",
     parameters |->
        [k \in {"operations", "description"} |->
            IF k = "operations"
            THEN [kind |-> "list", items |-> <<step1, step1>>]
            ELSE Str(<<"Merged ", step1.action, " and ", step2.action>>)],
     nextStep |-> <<>>]

\* WorkflowEngine._merge_file_operations: the merged dict has no nextStep
MergeFileOperations(step1, step2) ==
    [id |-> step1.id \o <<"_merged">>,
     type |-> "file_operation",
     action |-> "batch_operation",
     parameters |->
        [k \in {"operations", "description"} |->
            IF k = "operations"
            THEN [kind |-> "list", items |-> <<step1, step2>>]
            ELSE Str(<<"Merged ", step1.action, " and ", step2.action>>)],
     nextStep |-> <<>>]

RECURSIVE OptimizeFromMutAdvanceOne(_, _)
OptimizeFromMutAdvanceOne(steps, i) ==
    IF i > Len(steps)
    THEN <<>>
    ELSE IF /\ steps[i].type = "file_operation"
            /\ i + 1 <= Len(steps)
            /\ steps[i + 1].type = "file_operation"
         THEN <<MergeFileOperations(steps[i], steps[i + 1])>>
                  \o OptimizeFromMutAdvanceOne(steps, i + 1)
         ELSE <<steps[i]>> \o OptimizeFromMutAdvanceOne(steps, i + 1)

\* WorkflowEngine._optimize_steps: the loop from index i on
RECURSIVE OptimizeFrom(_, _)
OptimizeFrom(steps, i) ==
    IF i > Len(steps)
    THEN <<>>
    ELSE IF /\ steps[i].type = "file_operation"
            /\ i + 1 <= Len(steps)
            /\ steps[i + 1].type = "file_operation"
         THEN <<MergeFileOperations(steps[i], steps[i + 1])>>
                  \o OptimizeFrom(steps, i + 2)
         ELSE <<steps[i]>> \o OptimizeFrom(steps, i + 1)

OptimizeSteps(steps) == OptimizeFrom(steps, 1)

\* str.strip() of a line of spaces and other symbols
RECURSIVE Strip(_)
Strip(s) ==
    IF s = <<>> THEN s
    ELSE IF Head(s) = " " THEN Strip(Tail(s))
    ELSE IF s[Len(s)] = " " THEN Strip(SubSeq(s, 1, Len(s) - 1))
    ELSE s

\* [s.strip() for s in lines if s.strip()]
RECURSIVE StrippedNonEmpty(_)
StrippedNonEmpty(lines) ==
    IF lines = <<>> THEN <<>>
    ELSE IF Strip(Head(lines)) = <<>>
         THEN StrippedNonEmpty(Tail(lines))
         ELSE <<Strip(Head(lines))>> \o StrippedNonEmpty(Tail(lines))

\* the model selector handed to __init__: none, one whose select_model or
\* chat_completion raises, or one that answers with lines of text
NoSelector == [kind |-> "none"]
FailingSelector == [kind |-> "failing"]
AnsweringSelector(lines) == [kind |-> "answering", lines |-> lines]

\* WorkflowEngine._generate_ai_suggestions
GenerateAiSuggestions(model_selector, steps, context) ==
    IF model_selector = NoSelector
    THEN <<>>
    ELSE IF model_selector.kind = "failing"
         THEN <<>>
         ELSE LET suggestions == StrippedNonEmpty(model_selector.lines) IN
              SubSeq(suggestions, 1, Min(5, Len(suggestions)))

\* the methods class WorkflowEngine defines
EngineMethods ==
    {"__init__", "initialize", "cleanup", "analyze_workflow",
     "execute_workflow", "create_workflow", "analyze_voice_command",
     "get_workflows", "health_check", "_calculate_complexity",
     "_optimize_steps", "_execute_step", "_get_next_step",
     "_resolve_parameters", "_execute_system_command",
     "_execute_file_operation", "_execute_app_operation",
     "_generate_ai_suggestions", "_suggest_backup_steps",
     "_suggest_file_organization_steps", "_suggest_work_setup_steps",
     "_load_workflows", "_save_workflows", "_merge_file_operations"}

\* WorkflowEngine.analyze_workflow: what it returns or raises.  The call
\* self._estimate_duration(...) looks up a method the class does not
\* define: an AttributeError, logged and re-raised by the except clause.
AnalyzeWorkflow(model_selector, steps, context) ==
    LET complexity_score == CalculateComplexity(steps)
        optimized_steps == OptimizeSteps(steps)
        suggestions ==
            IF model_selector # NoSelector
            THEN GenerateAiSuggestions(model_selector, steps, context)
            ELSE <<>>
    IN CASE "_estimate_duration" \notin EngineMethods ->
            [kind |-> "raised", error |-> "AttributeError: _estimate_duration"]

\* ------------------------------------------------------------------ inputs
Names == {"backup", "work setup"}

\* hash(name): one integer per name (distinct names used here do not collide)
Hash(name) == IF name = "backup" THEN 7 ELSE 11

\* f"wf_{hash(name)}_{datetime.utcnow().timestamp()}"
WorkflowId(name, now) == <<"wf", Hash(name), now>>

\* an id no create_workflow call returns (the hash part is no name's hash)
UnknownId == <<"wf", 0, 0>>

TriggerTypes == {"manual"}

Digits == <<"0", "1", "2", "3", "4", "5", "6", "7", "8", "9">>

\* the decimal numeral of n, the ids "1", "2", ... of the suggested workflows
RECURSIVE DigitStr(_)
DigitStr(n) ==
    IF n < 10
    THEN <<Digits[n + 1]>>
    ELSE DigitStr(n \div 10) \o <<Digits[(n % 10) + 1]>>

\* the template string "${key}"
Template(key) == <<"$", "{">> \o key \o <<"}">>

ChainTypes == <<"command", "file_operation", "app_operation", "delay">>

\* a linear workflow of n steps "1" -> "2" -> ... -> "n"; every step after
\* the first passes the previous step's id as a template
Chain(n) ==
    [i \in 1..n |->
        Step(DigitStr(i),
             ChainTypes[(i % 4) + 1],
             "run",
             IF i = 1 THEN EmptyMap
                      ELSE [k \in {"input"} |-> Str(Template(DigitStr(i - 1)))],
             IF i < n THEN DigitStr(i + 1) ELSE <<>>)]

ChainLists == {Chain(n) : n \in 1..MaxChain}

SmallIds == <<<<"a">>, <<"b">>>>
SmallNext == {<<>>, <<"a">>, <<"b">>, <<"z">>}

\* type and parameters of a step: plain and templated commands, a delay of
\* the default duration, a delay whose duration is no number, and a step
\* type _execute_step does not know
SmallKinds ==
    { <<"command", EmptyMap>>,
      <<"command", [k \in {"input"} |-> Str(Template(<<"a">>))]>>,
      <<"delay", EmptyMap>>,
      <<"delay", [k \in {"duration"} |-> Str(Template(<<"a">>))]>>,
      <<"condition", EmptyMap>> }

\* every workflow of one or two steps with ids a, b in order, of any of the
\* kinds and nextStep references above: chains, cycles, dangling
\* references, failing steps
SmallLists ==
    UNION { { [i \in 1..n |-> Step(SmallIds[i], ki[i][1], "run", ki[i][2], nx[i])] :
                ki \in [1..n -> SmallKinds],
                nx \in [1..n -> SmallNext] } :
            n \in {1, 2} }

\* a chain whose second step fails and has a successor
FailMiddle ==
    <<Step(<<"a">>, "command", "run", EmptyMap, <<"b">>),
      Step(<<"b">>, "condition", "check", EmptyMap, <<"c">>),
      Step(<<"c">>, "command", "run", EmptyMap, <<>>)>>

StepLists == ChainLists \cup SmallLists \cup {FailMiddle}

\* the workflows of the store-centred specification: short runs only
StoreLists == {<<>>, Chain(1), Chain(2), FailMiddle}

\* caller-supplied parameters of execute_workflow
ParamInputs == {EmptyMap, [k \in {<<"a">>} |-> Str(<<"v">>)]}

\* ------------------------------------------------------------------- state
VARIABLES
    workflows,          \* self.workflows: id -> workflow
    clock,              \* what datetime.utcnow() reads
    created,            \* the ids create_workflow has returned, in order
    pc,                 \* execute_workflow: "idle", "loop" or "exit"
    workflow_id,        \* execute_workflow's argument
    workflow,           \* its local `workflow`
    execution_context,  \* its local `execution_context`
    results,            \* its local `results`
    current_step,       \* its local `current_step`
    step_index,         \* its local `step_index`
    executed,           \* the steps handed to _execute_step, in order
    outcome,            \* what the last execute_workflow returned or raised
    call,               \* a call of a helper under test: its arguments
    ret,                \* and what it returned
    peer                \* the locals of a second, concurrent execute_workflow

execVars == <<pc, workflow_id, workflow, execution_context, results,
              current_step, step_index, executed, outcome>>
storeVars == <<workflows, created>>
callVars == <<call, ret>>
vars == <<workflows, clock, created, pc, workflow_id, workflow,
          execution_context, results, current_step, step_index, executed,
          outcome, call, ret, peer>>

NoOutcome == [kind |-> "none"]
NoWorkflow == [none |-> TRUE]
NoCall == [fn |-> "none"]
NoRet == [kind |-> "none"]

\* WorkflowEngine.__init__ and initialize (_load_workflows: self.workflows = {})
EngineInit ==
    /\ workflows = EmptyMap
    /\ clock = 0
    /\ created = <<>>
    /\ pc = "idle"
    /\ workflow_id = UnknownId
    /\ workflow = NoWorkflow
    /\ execution_context = EmptyMap
    /\ results = EmptyMap
    /\ current_step = NoStep
    /\ step_index = 0
    /\ executed = <<>>
    /\ outcome = NoOutcome

\* a coroutine frame of execute_workflow that has not run yet; pending is
\* the value _execute_step holds across `await asyncio.sleep`, overlap
\* records that the other execution was between two of its steps at a wake
NoPeer ==
    [pc |-> "idle", workflow_id |-> UnknownId, workflow |-> NoWorkflow,
     execution_context |-> EmptyMap, results |-> EmptyMap,
     current_step |-> NoStep, step_index |-> 0, executed |-> <<>>,
     outcome |-> NoOutcome, pending |-> NoRet, overlap |-> FALSE]

Init ==
    /\ EngineInit
    /\ call = NoCall
    /\ ret = NoRet
    /\ peer = NoPeer

\* time passes between two readings of datetime.utcnow()
Tick ==
    /\ clock < MaxClock
    /\ clock' = clock + 1
    /\ UNCHANGED <<storeVars, execVars, callVars, peer>>

\* WorkflowEngine.create_workflow (with _save_workflows, which does nothing)
CreateWorkflow(name, steps, trigger_type, description) ==
    LET id == WorkflowId(name, clock)
        wf == [id |-> id, name |-> name, description |-> description,
               steps |-> steps, trigger_type |-> trigger_type,
               created_at |-> clock, updated_at |-> clock]
    IN /\ workflows' = Put(workflows, id, wf)
       /\ created' = Append(created, id)
       /\ UNCHANGED <<clock, execVars, callVars, peer>>

Raised(error) == [kind |-> "raised", error |-> error]

ExecuteBeginMutEmptyCompletes(wid, parameters) ==
    /\ pc = "idle"
    /\ workflow_id' = wid
    /\ executed' = <<>>
    /\ results' = EmptyMap
    /\ step_index' = 0
    /\ outcome' = IF wid \notin DOMAIN workflows
                  THEN Raised("ValueError: Workflow not found")
                  ELSE NoOutcome
    /\ IF wid \notin DOMAIN workflows
       THEN /\ workflow' = NoWorkflow
            /\ execution_context' = EmptyMap
            /\ current_step' = NoStep
            /\ pc' = "idle"
       ELSE /\ workflow' = workflows[wid]
            /\ execution_context' =
                   Put(parameters, <<"workflow_start_time">>, Time(clock))
            /\ current_step' = IF workflows[wid].steps = <<>>
                               THEN NoStep
                               ELSE workflows[wid].steps[1]
            /\ pc' = "loop"
    /\ UNCHANGED <<clock, storeVars, callVars, peer>>

ExecuteBeginMutMissingIsEmpty(wid, parameters) ==
    /\ pc = "idle"
    /\ workflow_id' = wid
    /\ executed' = <<>>
    /\ results' = EmptyMap
    /\ step_index' = 0
    /\ IF wid \notin DOMAIN workflows
       THEN /\ outcome' = [kind |-> "returned", workflow_id |-> wid,
                           status |-> "completed", execution_time |-> 0,
                           steps_executed |-> 0, results |-> EmptyMap]
            /\ workflow' = NoWorkflow
            /\ execution_context' = EmptyMap
            /\ current_step' = NoStep
            /\ pc' = "idle"
       ELSE /\ workflow' = workflows[wid]
            /\ execution_context' =
                   Put(parameters, <<"workflow_start_time">>, Time(clock))
            /\ IF workflows[wid].steps = <<>>
               THEN /\ outcome' = Raised("IndexError")
                    /\ current_step' = NoStep
                    /\ pc' = "idle"
               ELSE /\ outcome' = NoOutcome
                    /\ current_step' = workflows[wid].steps[1]
                    /\ pc' = "loop"
    /\ UNCHANGED <<clock, storeVars, callVars, peer, peer>>

\* execute_workflow up to the loop: the lookup, the context, steps[0]
ExecuteBegin(wid, parameters) ==
    /\ pc = "idle"
    /\ workflow_id' = wid
    /\ executed' = <<>>
    /\ results' = EmptyMap
    /\ step_index' = 0
    /\ IF wid \notin DOMAIN workflows
       THEN /\ outcome' = Raised("ValueError: Workflow not found")
            /\ workflow' = NoWorkflow
            /\ execution_context' = EmptyMap
            /\ current_step' = NoStep
            /\ pc' = "idle"
       ELSE /\ workflow' = workflows[wid]
            /\ execution_context' =
                   Put(parameters, <<"workflow_start_time">>, Time(clock))
            /\ IF workflows[wid].steps = <<>>
               THEN /\ outcome' = Raised("IndexError")
                    /\ current_step' = NoStep
                    /\ pc' = "idle"
               ELSE /\ outcome' = NoOutcome
                    /\ current_step' = workflows[wid].steps[1]
                    /\ pc' = "loop"
    /\ UNCHANGED <<clock, storeVars, callVars, peer, peer>>

\* the resolved parameters written back into the stored step
ResolvedInPlace(wf, step, context) ==
    [wf EXCEPT !.steps =
        [i \in 1..Len(wf.steps) |->
            IF wf.steps[i] = step
            THEN [step EXCEPT !.parameters =
                      ResolveParameters(step.parameters, context)]
            ELSE wf.steps[i]]]

IterateMutResolveInPlace ==
    /\ pc = "loop"
    /\ current_step # NoStep
    /\ step_index < MaxIter
    /\ LET step_result == ExecuteStep(current_step, execution_context) IN
       /\ executed' = Append(executed, current_step)
       /\ IF step_result.ok
          THEN /\ results' = Put(results, current_step.id, step_result.value)
               /\ current_step' = GetNextStep(workflow.steps, current_step)
               /\ step_index' = step_index + 1
               /\ pc' = IF SafetyLimitHit(step_index + 1) THEN "exit" ELSE "loop"
               /\ UNCHANGED outcome
          ELSE /\ outcome' = Raised(step_result.error)
               /\ pc' = "idle"
               /\ UNCHANGED <<results, current_step, step_index>>
    /\ workflows' =
          IF workflow_id \in DOMAIN workflows
          THEN [workflows EXCEPT ![workflow_id] =
                   ResolvedInPlace(@, current_step, execution_context)]
          ELSE workflows
    /\ UNCHANGED <<clock, created, callVars, peer, workflow_id, workflow,
                   execution_context>>

\* one pass of `while current_step:`; an exception of the step leaves the
\* function through the except clause, which logs and re-raises
Iterate ==
    /\ pc = "loop"
    /\ current_step # NoStep
    /\ step_index < MaxIter
    /\ LET step_result == ExecuteStep(current_step, execution_context) IN
       /\ executed' = Append(executed, current_step)
       /\ IF step_result.ok
          THEN /\ results' = Put(results, current_step.id, step_result.value)
               /\ current_step' = GetNextStep(workflow.steps, current_step)
               /\ step_index' = step_index + 1
               /\ pc' = IF SafetyLimitHit(step_index + 1) THEN "exit" ELSE "loop"
               /\ UNCHANGED outcome
          ELSE /\ outcome' = Raised(step_result.error)
               /\ pc' = "idle"
               /\ UNCHANGED <<results, current_step, step_index>>
    /\ UNCHANGED <<clock, storeVars, callVars, peer, workflow_id, workflow,
                   execution_context>>

\* the loop is over (current_step is None, or the break): the return
Return ==
    /\ \/ pc = "loop" /\ current_step = NoStep
       \/ pc = "exit"
    /\ outcome' =
          [kind |-> "returned",
           workflow_id |-> workflow_id,
           status |-> "completed",
           execution_time |-> clock - execution_context[<<"workflow_start_time">>].t,
           steps_executed |-> step_index,
           results |-> results]
    /\ pc' = "idle"
    /\ UNCHANGED <<clock, storeVars, callVars, peer, workflow_id, workflow,
                   execution_context, results, current_step, step_index,
                   executed>>

\* executions of one freshly created workflow, of any shape
Next ==
    \/ \E name \in Names, steps \in StepLists, trigger \in TriggerTypes :
          /\ workflows = EmptyMap
          /\ CreateWorkflow(name, steps, trigger, "")
    \/ \E wid \in DOMAIN workflows \cup {UnknownId}, parameters \in ParamInputs :
          ExecuteBegin(wid, parameters)
    \/ Iterate
    \/ Return

Spec == Init /\ [][Next]_vars

\* the event loop runs a started coroutine on: every executor returns
FairSpec == Init /\ [][Next]_vars /\ WF_vars(Iterate) /\ WF_vars(Return)

\* the task running execute_workflow is cancelled from outside while it is
\* suspended in `await asyncio.sleep(...)` of a delay step (the only point
\* where the coroutine yields to the event loop): CancelledError is raised
\* at the await and leaves execute_workflow, no except clause turns it
\* into a result
Cancel ==
    /\ pc = "loop"
    /\ current_step # NoStep
    /\ step_index < MaxIter
    /\ current_step.type = "delay"
    /\ ExecuteStep(current_step, execution_context).ok
    /\ executed' = Append(executed, current_step)
    /\ outcome' = Raised("CancelledError")
    /\ pc' = "idle"
    /\ UNCHANGED <<clock, storeVars, callVars, peer, workflow_id, workflow,
                   execution_context, results, current_step, step_index>>

\* executions that may be cancelled
NextCancel ==
    \/ Next
    \/ Cancel

SpecCancel == Init /\ [][NextCancel]_vars

\* --------------------------------------------- a second, concurrent run
\* the second coroutine runs the same code on its own frame
PeerContextMutShared == execution_context

\* the execution_context the second execution reads: its own local
PeerContext == peer.execution_context

\* execute_workflow up to the loop, in the second coroutine
PeerBegin(wid, parameters) ==
    /\ peer.pc = "idle"
    /\ peer' =
          IF wid \notin DOMAIN workflows
          THEN [NoPeer EXCEPT !.workflow_id = wid,
                              !.outcome = Raised("ValueError: Workflow not found")]
          ELSE LET begun ==
                      [NoPeer EXCEPT
                          !.workflow_id = wid,
                          !.workflow = workflows[wid],
                          !.execution_context =
                              Put(parameters, <<"workflow_start_time">>, Time(clock))]
               IN IF workflows[wid].steps = <<>>
                  THEN [begun EXCEPT !.outcome = Raised("IndexError")]
                  ELSE [begun EXCEPT !.current_step = workflows[wid].steps[1],
                                     !.pc = "loop"]
    /\ UNCHANGED <<clock, storeVars, execVars, callVars>>

\* results[current_step['id']] = step_result, the next step, the counter
\* and the safety limit, on the second coroutine's frame
PeerStored(value) ==
    [peer EXCEPT
        !.results = Put(peer.results, peer.current_step.id, value),
        !.current_step = GetNextStep(peer.workflow.steps, peer.current_step),
        !.step_index = peer.step_index + 1,
        !.pc = IF SafetyLimitHit(peer.step_index + 1) THEN "exit" ELSE "loop",
        !.pending = NoRet]

\* one pass of the loop up to its end or, in a delay step, up to the
\* suspension in `await asyncio.sleep`
PeerIterate ==
    /\ peer.pc = "loop"
    /\ peer.current_step # NoStep
    /\ peer.step_index < MaxIter
    /\ LET step_result == ExecuteStep(peer.current_step, PeerContext)
           started == [peer EXCEPT !.executed = Append(@, peer.current_step)]
       IN peer' =
             IF ~step_result.ok
             THEN [started EXCEPT !.outcome = Raised(step_result.error),
                                  !.pc = "idle"]
             ELSE IF peer.current_step.type = "delay"
             THEN [started EXCEPT !.pending = step_result, !.pc = "sleep"]
             ELSE [PeerStored(step_result.value) EXCEPT !.executed = started.executed]
    /\ UNCHANGED <<clock, storeVars, execVars, callVars>>

\* the sleep is over: the delay step returns and the pass is completed
PeerWake ==
    /\ peer.pc = "sleep"
    /\ peer' = [PeerStored(peer.pending.value) EXCEPT
                   !.overlap = @ \/ (pc = "loop" /\ step_index > 0)]
    /\ UNCHANGED <<clock, storeVars, execVars, callVars>>

\* the return of the second execution
PeerReturn ==
    /\ \/ peer.pc = "loop" /\ peer.current_step = NoStep
       \/ peer.pc = "exit"
    /\ peer' =
          [peer EXCEPT
              !.outcome =
                  [kind |-> "returned",
                   workflow_id |-> peer.workflow_id,
                   status |-> "completed",
                   execution_time |->
                       clock - peer.execution_context[<<"workflow_start_time">>].t,
                   steps_executed |-> peer.step_index,
                   results |-> peer.results],
              !.pc = "idle"]
    /\ UNCHANGED <<clock, storeVars, execVars, callVars>>

\* a delay whose result the next step asks for by template, next to a
\* caller parameter of the same name
DelayPair ==
    <<Step(<<"a">>, "delay", "wait", EmptyMap, <<"b">>),
      Step(<<"b">>, "command", "run",
           [k \in {"input"} |-> Str(Template(<<"a">>))], <<>>)>>

\* the workflows of the concurrent specification: short, acyclic
ConcLists == {Chain(2), FailMiddle, DelayPair}

\* two executions interleaved at every step and at every sleep, over a
\* store of workflows of distinct names
NextConc ==
    \/ \E name \in Names, steps \in ConcLists, trigger \in TriggerTypes :
          /\ WorkflowId(name, clock) \notin DOMAIN workflows
          /\ CreateWorkflow(name, steps, trigger, "")
    \/ \E wid \in DOMAIN workflows \cup {UnknownId}, parameters \in ParamInputs :
          ExecuteBegin(wid, parameters)
    \/ Iterate
    \/ Return
    \/ \E wid \in DOMAIN workflows \cup {UnknownId}, parameters \in ParamInputs :
          PeerBegin(wid, parameters)
    \/ PeerIterate
    \/ PeerWake
    \/ PeerReturn

SpecConc == Init /\ [][NextConc]_vars

\* a store of several short workflows, created at any time
NextStore ==
    \/ Tick
    \/ \E name \in Names, steps \in StoreLists, trigger \in TriggerTypes :
          /\ Len(created) < MaxCreates
          /\ CreateWorkflow(name, steps, trigger, "")
    \/ \E wid \in DOMAIN workflows \cup {UnknownId}, parameters \in ParamInputs :
          ExecuteBegin(wid, parameters)
    \/ Iterate
    \/ Return

SpecStore == Init /\ [][NextStore]_vars

\* ------------------------------------------------- helpers called directly
Alphabet == {"$", "{", "}", "a"}

\* every string of at most n symbols
Strings(n) == UNION {[1..k -> Alphabet] : k \in 0..n}

\* parameter values: every short string, a number, and a list that holds a
\* template string
ResolveValues ==
    {Str(s) : s \in Strings(MaxStrLen)}
        \cup {Num(1), [kind |-> "list", items |-> <<Str(Template(<<"a">>))>>]}

SecondValues == {Num(2), Str(Template(<<"a">>)), Str(<<"a">>)}

ResolveParameterDicts ==
    {EmptyMap}
        \cup {[k \in {"p"} |-> v] : v \in ResolveValues}
        \cup {[k \in {"p", "q"} |-> IF k = "p" THEN v ELSE w] :
                v \in ResolveValues, w \in SecondValues}

\* contexts over the keys "a", "" (the key of "${}") and "}" (of "${}}")
ResolveContexts ==
    {[k \in ks |-> IF k = <<"a">> THEN Str(<<"v">>) ELSE Num(Len(k))] :
        ks \in SUBSET {<<"a">>, <<>>, <<"}">>}}

ResolveCalls ==
    {[fn |-> "_resolve_parameters", parameters |-> p, context |-> c] :
        p \in ResolveParameterDicts, c \in ResolveContexts}

AllTypes ==
    {"command", "file_operation", "app_operation", "delay", "condition"}

\* step lists "1" -> "2" -> ... of every type combination
AnalyzeLists ==
    UNION { { [i \in 1..n |->
                 Step(DigitStr(i), ty[i], "run", EmptyMap,
                      IF i < n THEN DigitStr(i + 1) ELSE <<>>)] :
              ty \in [1..n -> AllTypes] } :
            n \in 0..MaxAnalyzeSteps }

Selectors ==
    {NoSelector, FailingSelector,
     AnsweringSelector(<<<<" ", "tip", " ">>, <<" ">>, <<"more">>>>)}

AnalyzeCalls ==
    {[fn |-> "analyze_workflow", model_selector |-> m, steps |-> s,
      context |-> EmptyMap] : m \in Selectors, s \in AnalyzeLists}

InitHelpers ==
    /\ EngineInit
    /\ call \in ResolveCalls \cup AnalyzeCalls
    /\ ret = NoRet
    /\ peer = NoPeer

ResolveCall ==
    /\ call.fn = "_resolve_parameters"
    /\ ret = NoRet
    /\ ret' = [kind |-> "returned",
               value |-> ResolveParameters(call.parameters, call.context)]
    /\ UNCHANGED <<clock, storeVars, execVars, call, peer>>

AnalyzeCall ==
    /\ call.fn = "analyze_workflow"
    /\ ret = NoRet
    /\ ret' = AnalyzeWorkflow(call.model_selector, call.steps, call.context)
    /\ UNCHANGED <<clock, storeVars, execVars, call, peer>>

NextHelpers ==
    \/ ResolveCall
    \/ AnalyzeCall

SpecHelpers == InitHelpers /\ [][NextHelpers]_vars

\* ----------------------------------------------------------------- claims
ExecutableTypes == {"command", "file_operation", "app_operation", "delay"}

\* some step was handed to _execute_step twice: the chain came back to it
Revisited(steps) ==
    \E i, j \in 1..Len(steps) : i < j /\ steps[i] = steps[j]

\* the executor of `step` fails under `context`: no executor for its type,
\* or a delay whose duration is no number
StepFails(step, context) ==
    \/ step.type \notin ExecutableTypes
    \/ /\ step.type = "delay"
       /\ Get(ResolveParameters(step.parameters, context), "duration",
              Num(DefaultDuration)).kind # "num"

\* unique ids, each step's nextStep the id of the following step, the last
\* step without nextStep
IsLinearChain(steps) ==
    /\ Len(steps) >= 1
    /\ \A i, j \in 1..Len(steps) : i # j => steps[i].id # steps[j].id
    /\ \A i \in 1..Len(steps) :
          steps[i].nextStep = IF i < Len(steps) THEN steps[i + 1].id ELSE <<>>

Finished == pc = "idle" /\ outcome.kind # "none"

\* C1: an execution that has come back to a step it already executed
\* (a cyclic nextStep chain) eventually ends, given that executors return.
C1_CyclicExecutionTerminates ==
    (pc = "loop" /\ \E i \in 1..Len(executed) : executed[i] = current_step)
        ~> (pc = "idle")

C1_Witness == Finished /\ outcome.kind = "returned" /\ Revisited(executed)

\* C2: a run stopped by the step bound returns status aborted, and a run
\* that ended at a step without (resolvable) nextStep returns completed.
C2_BoundStopIsAborted ==
    outcome.kind = "returned" =>
        IF outcome.steps_executed > StepLimit
        THEN outcome.status = "aborted"
        ELSE outcome.status = "completed"

\* C3: a run over a cyclic chain executes exactly 100 steps and reports
\* steps_executed = 100.
C3_CyclicRunsExactlyLimit ==
    (Finished /\ outcome.kind = "returned" /\ Revisited(executed)) =>
        /\ Len(executed) = StepLimit
        /\ outcome.steps_executed = StepLimit

\* C4: before the next step begins, the result of the step just executed is
\* in the execution context under that step's id.
C4_ResultRecordedInContext ==
    (pc = "loop" /\ Len(executed) >= 1) =>
        LET id == executed[Len(executed)].id IN
        /\ id \in DOMAIN execution_context
        /\ execution_context[id] = results[id]

\* C5: the failure of a step executor reaches the caller together with the
\* results of the steps that completed before it.
C5_FailureCarriesPartialResults ==
    (Finished /\ outcome.kind = "raised" /\ Len(executed) >= 1) =>
        /\ "results" \in DOMAIN outcome
        /\ outcome.results = results

\* C6: a step whose executor fails is the last step the run executes: the
\* run is over, the failure has been raised to the caller, the step was not
\* tried again and no later step ran.
C6_FailFast ==
    \A i \in 1..Len(executed) :
        StepFails(executed[i], execution_context) =>
            /\ i = Len(executed)
            /\ pc = "idle"
            /\ outcome.kind = "raised"

C6_Witness ==
    /\ Finished
    /\ outcome.kind = "raised"
    /\ Len(executed) >= 2
    /\ GetNextStep(workflow.steps, executed[Len(executed)]) # NoStep

C8_ResolutionPerValue ==
    (call.fn = "_resolve_parameters" /\ ret # NoRet) =>
        /\ ret.kind = "returned"
        /\ DOMAIN ret.value = DOMAIN call.parameters
        /\ \A name \in DOMAIN call.parameters :
              LET value == call.parameters[name]
                  keys == IF value.kind = "str"
                          THEN {key \in Strings(Len(value.s)) :
                                    value.s = Template(key)}
                          ELSE {}
              IN IF keys # {} /\ (CHOOSE key \in keys : TRUE) \in DOMAIN call.context
                 THEN ret.value[name] = call.context[CHOOSE key \in keys : TRUE]
                 ELSE ret.value[name] = value

C8_Witness ==
    /\ call.fn = "_resolve_parameters"
    /\ ret # NoRet
    /\ DOMAIN call.parameters = {"p", "q"}
    /\ call.parameters["p"] = Str(<<"$", "{", "}", "a">>)
    /\ call.parameters["q"] = Str(Template(<<"a">>))
    /\ ret.value["p"] = call.parameters["p"]
    /\ ret.value["q"] = Str(<<"v">>)

\* C9: without a model selector, or with one that fails, analyze_workflow
\* returns its five fields with an empty list of suggestions.
C9_AnalysisWithoutSuggestions ==
    (/\ call.fn = "analyze_workflow"
     /\ ret # NoRet
     /\ call.model_selector \in {NoSelector, FailingSelector})
    => /\ ret.kind = "returned"
       /\ DOMAIN ret.value =
              {"workflow_id", "optimized_steps", "estimated_duration",
               "complexity_score", "suggestions"}
       /\ ret.value.suggestions = <<>>

\* C10: the ids create_workflow has returned are pairwise distinct, and the
\* store holds one workflow per create.
C10_CreatedIdsDistinct ==
    /\ \A i, j \in 1..Len(created) : i # j => created[i] # created[j]
    /\ Cardinality(DOMAIN workflows) = Len(created)

\* ------------------------------------- complexity and optimisation calls
\* the step types the two functions tell apart, and one they do not
CompileTypes == {"command", "file_operation", "app_operation", "condition"}

\* step lists "1", "2", ... of every type combination
CompileLists ==
    UNION { { [i \in 1..n |->
                 Step(DigitStr(i), ty[i], "run", EmptyMap,
                      IF i < n THEN DigitStr(i + 1) ELSE <<>>)] :
              ty \in [1..n -> CompileTypes] } :
            n \in 0..MaxCompileSteps }

CompileCalls ==
    {[fn |-> f, steps |-> s] :
        f \in {"_calculate_complexity", "_optimize_steps"}, s \in CompileLists}

InitCompile ==
    /\ EngineInit
    /\ call \in CompileCalls
    /\ ret = NoRet
    /\ peer = NoPeer

ComplexityCall ==
    /\ call.fn = "_calculate_complexity"
    /\ ret = NoRet
    /\ ret' = [kind |-> "returned", value |-> CalculateComplexity(call.steps)]
    /\ UNCHANGED <<clock, storeVars, execVars, call, peer>>

OptimizeCall ==
    /\ call.fn = "_optimize_steps"
    /\ ret = NoRet
    /\ ret' = [kind |-> "returned", value |-> OptimizeSteps(call.steps)]
    /\ UNCHANGED <<clock, storeVars, execVars, call, peer>>

NextCompile ==
    \/ ComplexityCall
    \/ OptimizeCall

SpecCompile == InitCompile /\ [][NextCompile]_vars

\* ----------------------------------------------------- string methods
\* the characters of rstrip('.,!?')
TrailingPunctuation == {".", ",", "!", "?"}

\* str.rstrip(chars)
RECURSIVE RstripChars(_, _)
RstripChars(s, chars) ==
    IF s # <<>> /\ s[Len(s)] \in chars
    THEN RstripChars(SubSeq(s, 1, Len(s) - 1), chars)
    ELSE s

\* ------------------------------------------------- the intent classifier
\* A text is the sequence of its characters.
PatternConfidence == 90
FallbackConfidence == 30

UpperCase == <<"A", "B", "C", "D", "E", "F", "G", "H", "I", "J", "K", "L", "M",
               "N", "O", "P", "Q", "R", "S", "T", "U", "V", "W", "X", "Y", "Z">>
LowerCase == <<"a", "b", "c", "d", "e", "f", "g", "h", "i", "j", "k", "l", "m",
               "n", "o", "p", "q", "r", "s", "t", "u", "v", "w", "x", "y", "z">>

\* str.lower()
Lower(text) ==
    [i \in 1..Len(text) |->
        IF \E k \in 1..26 : UpperCase[k] = text[i]
        THEN LowerCase[CHOOSE k \in 1..26 : UpperCase[k] = text[i]]
        ELSE text[i]]

Whitespace == {" ", "\n"}

\* str.strip() of a text that may hold line breaks
RECURSIVE StripText(_)
StripText(s) ==
    IF s = <<>> THEN s
    ELSE IF Head(s) \in Whitespace THEN StripText(Tail(s))
    ELSE IF s[Len(s)] \in Whitespace THEN StripText(SubSeq(s, 1, Len(s) - 1))
    ELSE s

\* IntentAnalyzer._initialize_patterns: the rules in registration order.
\* A pattern "kw (.+)" is the keyword with group TRUE, a literal pattern
\* the keyword with group FALSE; extractor names the entity the group
\* is stored under ("" for the extractor that returns {}).
Patterns ==
    <<[intent |-> "open_application", action |-> "open_app",
       patterns |->
          <<[keyword |-> <<"o", "p", "e", "n">>, group |-> TRUE],
            [keyword |-> <<"l", "a", "u", "n", "c", "h">>, group |-> TRUE],
            [keyword |-> <<"s", "t", "a", "r", "t">>, group |-> TRUE],
            [keyword |-> <<"r", "u", "n">>, group |-> TRUE]>>,
       entity_extractor |-> "app_name", parameter_extractor |-> "app_name"],
      [intent |-> "search_web", action |-> "web_search",
       patterns |->
          <<[keyword |-> <<"s", "e", "a", "r", "c", "h", " ", "f", "o", "r">>, group |-> TRUE],
            [keyword |-> <<"f", "i", "n", "d">>, group |-> TRUE],
            [keyword |-> <<"l", "o", "o", "k", " ", "u", "p">>, group |-> TRUE],
            [keyword |-> <<"g", "o", "o", "g", "l", "e">>, group |-> TRUE]>>,
       entity_extractor |-> "query", parameter_extractor |-> ""],
      [intent |-> "system_info", action |-> "get_system_info",
       patterns |->
          <<[keyword |-> <<"s", "y", "s", "t", "e", "m", " ", "i", "n", "f", "o">>, group |-> FALSE],
            [keyword |-> <<"w", "h", "a", "t", "'", "s", " ", "r", "u", "n", "n", "i", "n", "g">>, group |-> FALSE],
            [keyword |-> <<"s", "h", "o", "w", " ", "p", "r", "o", "c", "e", "s", "s", "e", "s">>, group |-> FALSE],
            [keyword |-> <<"c", "o", "m", "p", "u", "t", "e", "r", " ", "i", "n", "f", "o">>, group |-> FALSE]>>,
       entity_extractor |-> "", parameter_extractor |-> ""]>>

NoMatch == [none |-> TRUE]

\* re.search(pattern, s): the leftmost place where the pattern matches;
\* "." matches every character but the line break and ".+" is greedy, so
\* group 1 runs from behind "kw " to the end of that line
Search(pattern, s) ==
    LET lit == IF pattern.group THEN pattern.keyword \o <<" ">>
                                ELSE pattern.keyword
        starts ==
            {i \in 1..(Len(s) - Len(lit) + 1) :
                /\ SubSeq(s, i, i + Len(lit) - 1) = lit
                /\ pattern.group =>
                      /\ i + Len(lit) <= Len(s)
                      /\ s[i + Len(lit)] # "\n"}
    IN IF starts = {}
       THEN NoMatch
       ELSE LET start == CHOOSE i \in starts : \A j \in starts : i <= j
                from == start + Len(lit)
                breaks == {j \in from..Len(s) : s[j] = "\n"}
                to == IF breaks = {}
                      THEN Len(s)
                      ELSE (CHOOSE j \in breaks : \A k \in breaks : j <= k) - 1
            IN [start |-> start,
                group1 |-> IF pattern.group THEN SubSeq(s, from, to) ELSE <<>>]

\* _extract_app_name, _extract_app_parameters, _extract_search_query
\* ({name: match.group(1).strip()}), `lambda m, t: {}`, and the default
\* of intent_config.get('parameter_extractor', ...)
Extract(name, match) ==
    IF name = ""
    THEN EmptyMap
    ELSE [k \in {name} |-> Str(StripText(match.group1))]

\* the rule and pattern numbers whose pattern matches
Hits(text_lower) ==
    {rp \in (1..Len(Patterns)) \X (1..4) :
        /\ rp[2] <= Len(Patterns[rp[1]].patterns)
        /\ Search(Patterns[rp[1]].patterns[rp[2]], text_lower) # NoMatch}

FirstMatchMutLeftmost(text_lower) ==
    LET at(rp) == Search(Patterns[rp[1]].patterns[rp[2]], text_lower).start IN
    CHOOSE rp \in Hits(text_lower) :
        \A other \in Hits(text_lower) :
            \/ at(rp) < at(other)
            \/ /\ at(rp) = at(other)
               /\ \/ rp[1] < other[1]
                  \/ rp[1] = other[1] /\ rp[2] <= other[2]

\* the two loops of analyze: the first rule, and in it the first pattern,
\* that matches
FirstMatch(text_lower) ==
    CHOOSE rp \in Hits(text_lower) :
        \A other \in Hits(text_lower) :
            \/ rp[1] < other[1]
            \/ rp[1] = other[1] /\ rp[2] <= other[2]

\* IntentAnalyzer._fallback_analysis
FallbackAnalysis(text) ==
    [kind |-> "returned", intent |-> "general_query",
     confidence |-> FallbackConfidence,
     entities |-> [k \in {"text"} |-> Str(text)],
     action |-> "ai_process",
     parameters |-> [k \in {"prompt"} |-> Str(text)]]

\* the result of analyze for the text its patterns are matched against
AnalyzeLowered(text, text_lower) ==
    IF Hits(text_lower) = {}
    THEN FallbackAnalysis(text)
    ELSE LET rp == FirstMatch(text_lower)
             intent_config == Patterns[rp[1]]
             match == Search(intent_config.patterns[rp[2]], text_lower)
         IN [kind |-> "returned", intent |-> intent_config.intent,
             confidence |-> PatternConfidence,
             entities |-> Extract(intent_config.entity_extractor, match),
             action |-> intent_config.action,
             parameters |-> Extract(intent_config.parameter_extractor, match)]

AnalyzeMutMatchOriginal(text) == AnalyzeLowered(text, text)

\* IntentAnalyzer.analyze
Analyze(text) == AnalyzeLowered(text, StripText(Lower(text)))

\* the pieces the texts are put together from: keywords of the three
\* rules (one capitalised), an argument, a blank, a line break and a
\* full stop
Fragments ==
    {<<"O", "p", "e", "n", " ">>,
     <<"r", "u", "n", " ">>,
     <<"f", "i", "n", "d", " ">>,
     <<"s", "y", "s", "t", "e", "m", " ", "i", "n", "f", "o">>,
     <<"x">>,
     <<" ">>,
     <<"\n">>,
     <<".">>}

\* every text of at most n pieces
RECURSIVE Texts(_)
Texts(n) ==
    IF n = 0
    THEN {<<>>}
    ELSE Texts(n - 1) \cup {t \o f : t \in Texts(n - 1), f \in Fragments}

ClassifyCalls == {[fn |-> "analyze", text |-> t] : t \in Texts(MaxFragments)}

InitClassify ==
    /\ EngineInit
    /\ call \in ClassifyCalls
    /\ ret = NoRet
    /\ peer = NoPeer

ClassifyCall ==
    /\ call.fn = "analyze"
    /\ ret = NoRet
    /\ ret' = Analyze(call.text)
    /\ UNCHANGED <<clock, storeVars, execVars, call, peer>>

NextClassify ==
    \/ ClassifyCall

SpecClassify == InitClassify /\ [][NextClassify]_vars

\* ------------------------------------------------ the command processor
\* `sub in s`
Contains(s, sub) ==
    \E i \in 1..(Len(s) - Len(sub) + 1) : SubSeq(s, i, i + Len(sub) - 1) = sub

\* str.replace(old, new): every occurrence, from the left, not overlapping
RECURSIVE ReplaceAll(_, _, _)
ReplaceAll(s, old, new) ==
    IF Len(s) < Len(old)
    THEN s
    ELSE IF SubSeq(s, 1, Len(old)) = old
         THEN new \o ReplaceAll(SubSeq(s, Len(old) + 1, Len(s)), old, new)
         ELSE <<Head(s)>> \o ReplaceAll(Tail(s), old, new)

\* str.split(): the words between runs of whitespace
RECURSIVE SplitWords(_)
SplitWords(s) ==
    LET body == StripText(s)
        stops == {i \in 1..Len(body) : body[i] \in Whitespace}
    IN IF body = <<>>
       THEN <<>>
       ELSE IF stops = {}
            THEN <<body>>
            ELSE LET stop == CHOOSE i \in stops : \A j \in stops : i <= j IN
                 <<SubSeq(body, 1, stop - 1)>>
                     \o SplitWords(SubSeq(body, stop + 1, Len(body)))

\* ' '.join(words)
RECURSIVE JoinWords(_)
JoinWords(words) ==
    IF words = <<>> THEN <<>>
    ELSE IF Len(words) = 1 THEN words[1]
    ELSE words[1] \o <<" ">> \o JoinWords(Tail(words))

\* None, as a command, as parameters and as what an extractor returns
None == [kind |-> "none"]

\* the first of the prefixes, in list order, that `command` starts with
FirstPrefix(command, prefixes) ==
    LET hits == {i \in 1..Len(prefixes) : Startswith(command, prefixes[i])} IN
    IF hits = {} THEN None
    ELSE Str(prefixes[CHOOSE i \in hits : \A j \in hits : i <= j])

LaunchPrefixes == <<<<"o", "p", "e", "n", " ">>, <<"l", "a", "u", "n", "c", "h", " ">>, <<"s", "t", "a", "r", "t", " ">>>>
ClosePrefixes == <<<<"c", "l", "o", "s", "e", " ">>, <<"q", "u", "i", "t", " ">>, <<"e", "x", "i", "t", " ">>>>

ExtractAppNameMutKeepsPrefix(command) ==
    LET prefix == FirstPrefix(command, LaunchPrefixes \o ClosePrefixes) IN
    IF prefix = None
    THEN None
    ELSE LET stripped == StripText(command)
             cut == RstripChars(stripped, TrailingPunctuation)
             app_name == StripText(ReplaceAll(ReplaceAll(cut, <<" ", "t", "h", "e", " ">>, <<" ">>),
                                              <<" ", "m", "y", " ">>, <<" ">>))
         IN IF app_name = <<>> THEN None ELSE Str(app_name)

\* CommandProcessor._extract_app_name
ExtractAppName(command) ==
    LET prefix == FirstPrefix(command, LaunchPrefixes \o ClosePrefixes) IN
    IF prefix = None
    THEN None
    ELSE LET stripped == StripText(SubSeq(command, Len(prefix.s) + 1, Len(command)))
             cut == RstripChars(stripped, TrailingPunctuation)
             app_name == StripText(ReplaceAll(ReplaceAll(cut, <<" ", "t", "h", "e", " ">>, <<" ">>),
                                              <<" ", "m", "y", " ">>, <<" ">>))
         IN IF app_name = <<>> THEN None ELSE Str(app_name)

SearchPrefixes == <<<<"s", "e", "a", "r", "c", "h", " ", "f", "o", "r", " ">>,
                   <<"f", "i", "n", "d", " ">>,
                   <<"l", "o", "c", "a", "t", "e", " ">>,
                   <<"l", "o", "o", "k", " ", "f", "o", "r", " ">>>>

\* the words after the first word `target`, without for, my, the
AfterWord(words, target) ==
    LET at == CHOOSE i \in 1..Len(words) :
                  /\ words[i] = target
                  /\ \A j \in 1..(i - 1) : words[j] # target
    IN SelectSeq(SubSeq(words, at + 1, Len(words)),
                 LAMBDA word : word \notin {<<"f", "o", "r">>, <<"m", "y">>, <<"t", "h", "e">>})

\* CommandProcessor._extract_search_query; words.index raises ValueError
\* when neither search nor find is a word of its own, and the bare except
\* passes on to `return None`
ExtractSearchQuery(command) ==
    LET prefix == FirstPrefix(command, SearchPrefixes) IN
    IF prefix # None
    THEN LET stripped == StripText(SubSeq(command, Len(prefix.s) + 1, Len(command)))
             query == StripText(ReplaceAll(ReplaceAll(stripped, <<" ", "f", "i", "l", "e", "s">>, <<>>),
                                           <<" ", "d", "o", "c", "u", "m", "e", "n", "t", "s">>, <<>>))
         IN IF query = <<>> THEN None ELSE Str(query)
    ELSE IF Contains(command, <<"s", "e", "a", "r", "c", "h">>) \/ Contains(command, <<"f", "i", "n", "d">>)
    THEN LET words == SplitWords(command)
             isWord(w) == \E i \in 1..Len(words) : words[i] = w
             target == IF isWord(<<"s", "e", "a", "r", "c", "h">>) THEN <<"s", "e", "a", "r", "c", "h">> ELSE <<"f", "i", "n", "d">>
         IN IF ~isWord(target)
            THEN None
            ELSE LET query_words == AfterWord(words, target) IN
                 IF query_words = <<>> THEN None ELSE Str(JoinWords(query_words))
    ELSE None

\* the operations dict of _extract_file_operation, in insertion order
Operations ==
    <<[operation |-> <<"c", "o", "p", "y">>, keywords |-> {<<"c", "o", "p", "y">>, <<"d", "u", "p", "l", "i", "c", "a", "t", "e">>}],
      [operation |-> <<"m", "o", "v", "e">>, keywords |-> {<<"m", "o", "v", "e">>, <<"t", "r", "a", "n", "s", "f", "e", "r">>}],
      [operation |-> <<"d", "e", "l", "e", "t", "e">>, keywords |-> {<<"d", "e", "l", "e", "t", "e">>, <<"r", "e", "m", "o", "v", "e">>, <<"t", "r", "a", "s", "h">>}],
      [operation |-> <<"b", "a", "c", "k", "u", "p">>, keywords |-> {<<"b", "a", "c", "k", "u", "p">>, <<"s", "a", "v", "e", " ", "c", "o", "p", "y">>}]>>

\* CommandProcessor._extract_file_operation
ExtractFileOperation(command) ==
    LET hits == {i \in 1..Len(Operations) :
                    \E keyword \in Operations[i].keywords : Contains(command, keyword)}
    IN IF hits = {} THEN None
       ELSE Str(Operations[CHOOSE i \in hits : \A j \in hits : i <= j].operation)

\* A result dict of the command processor.  Confidences are in
\* hundredths and execution times in hundredths of a second; the fixed
\* parts of a response are one symbol each.
CommandResult(success, response, confidence, execution_time) ==
    [success |-> success, response |-> Str(response),
     confidence |-> confidence, execution_time |-> execution_time]

\* the dict d with one more key
WithKey(d, key, value) ==
    [k \in DOMAIN d \cup {key} |-> IF k = key THEN value ELSE d[k]]

\* CommandProcessor._handle_application_launch; nothing in its try block
\* raises for a str command
HandleApplicationLaunch(command, parameters) ==
    LET app_name == ExtractAppName(command) IN
    IF app_name = None
    THEN CommandResult(FALSE,
             <<"Could not determine which application to launch">>, 30, 0)
    ELSE WithKey(CommandResult(TRUE, <<"Launching ">> \o app_name.s, 90, 10),
                 "application", app_name)

\* CommandProcessor._handle_application_close
HandleApplicationClose(command, parameters) ==
    LET app_name == ExtractAppName(command) IN
    IF app_name = None
    THEN CommandResult(FALSE,
             <<"Could not determine which application to close">>, 30, 0)
    ELSE WithKey(CommandResult(TRUE, <<"Closing ">> \o app_name.s, 90, 10),
                 "application", app_name)

\* CommandProcessor._handle_file_search
HandleFileSearch(command, parameters) ==
    LET search_query == ExtractSearchQuery(command) IN
    IF search_query = None
    THEN CommandResult(FALSE, <<"What would you like me to search for?">>, 50, 0)
    ELSE WithKey(CommandResult(TRUE,
                     <<"Searching for files matching '">> \o search_query.s \o <<"'">>,
                     80, 20),
                 "search_query", search_query)

\* CommandProcessor._handle_file_operation
HandleFileOperation(command, parameters) ==
    LET operation == ExtractFileOperation(command) IN
    IF operation = None
    THEN CommandResult(FALSE,
             <<"What file operation would you like to perform?">>, 40, 0)
    ELSE WithKey(CommandResult(TRUE,
                     <<"Performing file operation: ">> \o operation.s, 80, 10),
                 "operation", operation)

\* CommandProcessor._handle_system_info; the clock reading is one symbol
HandleSystemInfo(command, parameters) ==
    IF Contains(command, <<"t", "i", "m", "e">>)
    THEN CommandResult(TRUE, <<"The current time is ", "%I:%M %p">>, 100, 10)
    ELSE IF Contains(command, <<"d", "a", "t", "e">>)
    THEN CommandResult(TRUE, <<"Today is ", "%A, %B %d, %Y">>, 100, 10)
    ELSE CommandResult(FALSE, <<"I can tell you the current time or date">>, 70, 0)

\* what the operating system does with a shell command: the spawn raises
\* (OSError), or the process ends with a return code and has written
\* bytes that decode as UTF-8 or do not
Bytes(s) == [valid |-> TRUE, s |-> s]
Undecodable == [valid |-> FALSE, s |-> <<>>]

ShellOutputs == {Bytes(<<>>), Bytes(<<" ", "\n">>), Bytes(<<"o", "k", "\n">>), Undecodable}

ShellOutcomes ==
    {[spawn |-> "raises", returncode |-> 0, output |-> Bytes(<<>>)]}
        \cup {[spawn |-> "ok", returncode |-> rc, output |-> out] :
                 rc \in {0, 1}, out \in ShellOutputs}

\* bytes.decode()
Decode(bytes) ==
    IF bytes.valid THEN Ok(bytes.s) ELSE Raise("UnicodeDecodeError")

\* CommandProcessor._handle_generic_command: shell.output is what the
\* process wrote to the stream the branch reads (stdout for return code
\* 0, else stderr)
HandleGenericCommand(command, parameters, shell) ==
    IF shell.spawn = "raises"
    THEN CommandResult(FALSE, <<"Command execution error: ", "OSError">>, 0, 0)
    ELSE LET decoded == Decode(shell.output) IN
         IF ~decoded.ok
         THEN CommandResult(FALSE, <<"Command execution error: ", decoded.error>>, 0, 0)
         ELSE IF shell.returncode = 0
         THEN CommandResult(TRUE,
                  IF StripText(decoded.value) # <<>>
                  THEN StripText(decoded.value)
                  ELSE <<"Command executed successfully">>, 80, 50)
         ELSE CommandResult(FALSE,
                  IF StripText(decoded.value) # <<>>
                  THEN StripText(decoded.value)
                  ELSE <<"Command failed">>, 60, 50)

SearchKeywords == {<<"s", "e", "a", "r", "c", "h">>, <<"f", "i", "n", "d">>, <<"l", "o", "c", "a", "t", "e">>}
FileKeywords == {<<"c", "o", "p", "y">>, <<"m", "o", "v", "e">>, <<"d", "e", "l", "e", "t", "e">>, <<"b", "a", "c", "k", "u", "p">>}
InfoKeywords == {<<"w", "h", "a", "t", " ", "t", "i", "m", "e">>, <<"w", "h", "a", "t", " ", "d", "a", "t", "e">>}

\* the branch of execute that takes the lower-cased, trimmed command
Route(command_lower) ==
    IF FirstPrefix(command_lower, LaunchPrefixes) # None
    THEN "_handle_application_launch"
    ELSE IF FirstPrefix(command_lower, ClosePrefixes) # None
    THEN "_handle_application_close"
    ELSE IF \E keyword \in SearchKeywords : Contains(command_lower, keyword)
    THEN "_handle_file_search"
    ELSE IF \E keyword \in FileKeywords : Contains(command_lower, keyword)
    THEN "_handle_file_operation"
    ELSE IF \E keyword \in InfoKeywords : Contains(command_lower, keyword)
    THEN "_handle_system_info"
    ELSE "_handle_generic_command"

\* what execute gives back: the dict, with the handler that made it and
\* the command line handed to the shell (None when no shell was run)
Handled(handler, shell_command, value) ==
    [kind |-> "returned", handler |-> handler,
     shell_command |-> shell_command, value |-> value]

\* execute from the routing on, for a str command
Dispatch(command, parameters, shell) ==
    LET command_lower == StripText(Lower(command))
        handler == Route(command_lower)
    IN CASE handler = "_handle_application_launch" ->
              Handled(handler, None, HandleApplicationLaunch(command_lower, parameters))
         [] handler = "_handle_application_close" ->
              Handled(handler, None, HandleApplicationClose(command_lower, parameters))
         [] handler = "_handle_file_search" ->
              Handled(handler, None, HandleFileSearch(command_lower, parameters))
         [] handler = "_handle_file_operation" ->
              Handled(handler, None, HandleFileOperation(command_lower, parameters))
         [] handler = "_handle_system_info" ->
              Handled(handler, None, HandleSystemInfo(command_lower, parameters))
         [] OTHER ->
              Handled(handler, Str(command),
                      HandleGenericCommand(command, parameters, shell))

ExecuteMutNoCatch(command, parameters, shell) ==
    IF command = None
    THEN Raised("AttributeError")
    ELSE Dispatch(command.s, IF parameters = None THEN EmptyMap ELSE parameters, shell)

\* CommandProcessor.execute: `command.lower()` of a command that is no
\* str raises AttributeError, which the except clause turns into a result
Execute(command, parameters, shell) ==
    IF command = None
    THEN Handled("execute", None,
             CommandResult(FALSE, <<"Command failed: ", "AttributeError">>, 0, 0))
    ELSE Dispatch(command.s, IF parameters = None THEN EmptyMap ELSE parameters, shell)

\* the pieces commands are put together from: keywords of every test of
\* the routing (one capitalised, one without its blank), a target, a
\* full stop and a blank
CommandFragments ==
    {<<"O", "p", "e", "n", " ">>,
     <<"o", "p", "e", "n">>,
     <<"q", "u", "i", "t", " ">>,
     <<"f", "i", "n", "d", " ">>,
     <<"c", "o", "p", "y">>,
     <<"w", "h", "a", "t", " ", "t", "i", "m", "e">>,
     <<"x">>,
     <<".">>,
     <<" ">>}

\* every command of at most n pieces
RECURSIVE Commands(_)
Commands(n) ==
    IF n = 0
    THEN {<<>>}
    ELSE Commands(n - 1) \cup {c \o f : c \in Commands(n - 1), f \in CommandFragments}

\* commands with the words _extract_app_name and _extract_search_query
\* leave out
StopWordCommands ==
    {<<"o", "p", "e", "n", " ", "x", " ", "t", "h", "e", " ", "x">>,
     <<"o", "p", "e", "n", " ", "t", "h", "e", " ", "x">>,
     <<"f", "i", "n", "d", " ", "m", "y", " ", "x", " ", "f", "i", "l", "e", "s">>,
     <<"x", " ", "s", "e", "a", "r", "c", "h", " ", "f", "o", "r", " ", "t", "h", "e", " ", "x">>,
     <<"r", "e", "f", "i", "n", "d", " ", "x">>}

ExecuteCalls ==
    {[fn |-> "execute", command |-> c, parameters |-> p] :
        c \in {Str(s) : s \in Commands(MaxCommandFragments) \cup StopWordCommands}
                 \cup {None},
        p \in {None, [k \in {"a"} |-> Str(<<"v">>)]}}

InitExecute ==
    /\ EngineInit
    /\ call \in ExecuteCalls
    /\ ret = NoRet
    /\ peer = NoPeer

ExecuteCall ==
    /\ call.fn = "execute"
    /\ ret = NoRet
    /\ \E shell \in ShellOutcomes :
          ret' = Execute(call.command, call.parameters, shell)
    /\ UNCHANGED <<clock, storeVars, execVars, call, peer>>

NextExecute ==
    \/ ExecuteCall

SpecExecute == InitExecute /\ [][NextExecute]_vars

\* --------------------------------------- workflows of optimised steps
\* a workflow is created from what _optimize_steps made of a chain of at
\* most four steps, and executed
OptimizedInputs == {steps \in CompileLists : Len(steps) <= 4}

NextOptimized ==
    \/ \E name \in Names, steps \in OptimizedInputs, trigger \in TriggerTypes :
          /\ workflows = EmptyMap
          /\ CreateWorkflow(name, OptimizeSteps(steps), trigger, "")
    \/ \E wid \in DOMAIN workflows, parameters \in ParamInputs :
          ExecuteBegin(wid, parameters)
    \/ Iterate
    \/ Return

SpecOptimized == Init /\ [][NextOptimized]_vars

\* the list with one more step put in before position p
InsertAt(steps, p, step) ==
    SubSeq(steps, 1, p - 1) \o <<step>> \o SubSeq(steps, p, Len(steps))

\* how many file_operation steps in a row end at position i
RECURSIVE RunLength(_, _)
RunLength(steps, i) ==
    IF i = 0 \/ steps[i].type # "file_operation"
    THEN 0
    ELSE 1 + RunLength(steps, i - 1)

\* the merged steps of an optimised list replaced by the steps they carry
RECURSIVE Expand(_)
Expand(steps) ==
    IF steps = <<>>
    THEN <<>>
    ELSE (IF steps[1].action = "batch_operation"
          THEN steps[1].parameters["operations"].items
          ELSE <<steps[1]>>) \o Expand(Tail(steps))

\* execute_workflow run to its end on its own: the loop from `step` on
RECURSIVE RunLoop(_, _, _, _, _, _)
RunLoop(wid, wf, context, step, index, res) ==
    IF step = NoStep \/ SafetyLimitHit(index)
    THEN [kind |-> "returned", workflow_id |-> wid, status |-> "completed",
          execution_time |-> clock - context[<<"workflow_start_time">>].t,
          steps_executed |-> index, results |-> res]
    ELSE LET step_result == ExecuteStep(step, context) IN
         IF step_result.ok
         THEN RunLoop(wid, wf, context, GetNextStep(wf.steps, step),
                      index + 1, Put(res, step.id, step_result.value))
         ELSE Raised(step_result.error)

\* what execute_workflow gives when nothing else runs
RunAlone(wid, wf, context) ==
    IF wf = NoWorkflow THEN Raised("ValueError: Workflow not found")
    ELSE IF wf.steps = <<>> THEN Raised("IndexError")
    ELSE RunLoop(wid, wf, context, wf.steps[1], 0, EmptyMap)

\* C11: every stored workflow is consistent: each nextStep is absent or the
\* id of a step of the same workflow.
C11_StoredWorkflowsConsistent ==
    \A wid \in DOMAIN workflows :
        LET steps == workflows[wid].steps IN
        \A i \in 1..Len(steps) :
            \/ steps[i].nextStep = <<>>
            \/ \E j \in 1..Len(steps) : steps[j].id = steps[i].nextStep

\* C12: a call of execute_workflow with an id the store does not hold
\* raises the not-found error, hands no step to an executor, does not go on
\* to the loop, and leaves the store as it was.
C12_UnknownIdRaisesNotFound ==
    [][(/\ pc = "idle"
        /\ execVars' # execVars
        /\ workflow_id' \notin DOMAIN workflows)
       => /\ outcome' = Raised("ValueError: Workflow not found")
          /\ executed' = <<>>
          /\ pc' = "idle"
          /\ workflows' = workflows
          /\ created' = created]_vars

C12_Witness ==
    /\ Finished
    /\ outcome = Raised("ValueError: Workflow not found")
    /\ workflows # EmptyMap
    /\ workflow_id \notin DOMAIN workflows
    /\ executed = <<>>

\* C15: no step of an execution, whether it begins, runs a step, fails or
\* returns, changes the workflow store: the stored steps keep their
\* parameters, templates unresolved.
C15_ExecutionLeavesStoreUnchanged ==
    [][(execVars' # execVars) => (workflows' = workflows)]_vars

C15_Witness ==
    /\ Finished
    /\ outcome.kind = "returned"
    /\ outcome.steps_executed > StepLimit
    /\ DOMAIN execution_context = {<<"a">>, <<"workflow_start_time">>}
    /\ workflow_id \in DOMAIN workflows
    /\ workflows[workflow_id] = workflow
    /\ \E i \in 1..Len(executed) :
          /\ "input" \in DOMAIN executed[i].parameters
          /\ executed[i].parameters["input"] = Str(Template(<<"a">>))
          /\ results[executed[i].id].parameters["input"] = Str(<<"v">>)

\* C13: a run that was cancelled while a delay step was suspended (the step
\* was started, did not fail and did not finish) starts no further step and
\* reports status aborted.
C13_CancelledRunReportsAborted ==
    (/\ Finished
     /\ Len(executed) > step_index
     /\ ~StepFails(executed[Len(executed)], execution_context))
    => /\ "status" \in DOMAIN outcome
       /\ outcome.status = "aborted"

\* C14: two executions that interleave share no execution state: a step
\* of one leaves the context, results, counter and position of the other
\* as they are, and each finished execution has the result it has when it
\* runs alone on the same workflow and parameters.
C14_ConcurrentRunsIsolated ==
    /\ [](/\ Finished => outcome = RunAlone(workflow_id, workflow, execution_context)
          /\ (peer.pc = "idle" /\ peer.outcome.kind # "none")
                => peer.outcome = RunAlone(peer.workflow_id, peer.workflow,
                                           peer.execution_context))
    /\ [][/\ (peer' # peer) => (execVars' = execVars)
          /\ (execVars' # execVars) => (peer' = peer)]_vars

\* the second execution returned after waking between two steps of the
\* first, both on one workflow, with parameters of their own
C14_Witness ==
    /\ peer.pc = "idle"
    /\ peer.outcome.kind = "returned"
    /\ peer.overlap
    /\ peer.workflow_id = workflow_id
    /\ Finished
    /\ outcome.kind = "returned"
    /\ <<"a">> \in DOMAIN peer.execution_context
    /\ <<"a">> \notin DOMAIN execution_context
    /\ peer.outcome.results[<<"b">>].parameters["input"] = Str(<<"v">>)
    /\ outcome.results[<<"b">>].parameters["input"] = Str(Template(<<"a">>))

\* C18: the complexity score is min(1.0, 0.1 * steps + 0.4 * conditions
\* + 0.5 * external actions) (here in hundredths), lies in [0, 1] and does
\* not go down when a step of any type is put in anywhere.
C18_ComplexityFormula ==
    (call.fn = "_calculate_complexity" /\ ret.kind = "returned") =>
        LET steps == call.steps
            conditional_count ==
                Len(SelectSeq(steps, LAMBDA s : s.type = "condition"))
            external_action_count ==
                Len(SelectSeq(steps, LAMBDA s : s.type = "app_operation"))
                    + Len(SelectSeq(steps, LAMBDA s : s.type = "file_operation"))
            sum == 10 * Len(steps) + 40 * conditional_count
                       + 50 * external_action_count
        IN /\ ret.value = IF sum > 100 THEN 100 ELSE sum
           /\ 0 <= ret.value /\ ret.value <= 100
           /\ \A ty \in CompileTypes, p \in 1..(Len(steps) + 1) :
                 CalculateComplexity(
                     InsertAt(steps, p, Step(<<"n">>, ty, "run", EmptyMap, <<>>)))
                    >= ret.value

\* five steps, one condition, two external actions: the sum 1.9 scores 1.0
C18_Witness ==
    /\ call.fn = "_calculate_complexity"
    /\ ret.kind = "returned"
    /\ Len(call.steps) = 5
    /\ CountType(call.steps, {"condition"}) = 1
    /\ CountType(call.steps, {"app_operation", "file_operation"}) = 2
    /\ ret.value = 100

\* C19: optimisation pairs file_operation steps from the left: in a run of
\* adjacent file_operation steps the 1st and 2nd, 3rd and 4th, ... are
\* merged into one batch_operation step carrying both in order, the last
\* of an odd run stays alone, every other step stays as it is.
C19_GreedyLeftPairing ==
    (call.fn = "_optimize_steps" /\ ret.kind = "returned") =>
        LET steps == call.steps
            out == ret.value
            second(i) == RunLength(steps, i) > 0 /\ RunLength(steps, i) % 2 = 0
            first(i) == /\ RunLength(steps, i) % 2 = 1
                        /\ i < Len(steps)
                        /\ steps[i + 1].type = "file_operation"
            heads == {i \in 1..Len(steps) : ~second(i)}
            place(i) == Cardinality({j \in heads : j <= i})
        IN /\ Len(out) = Cardinality(heads)
           /\ \A i \in heads :
                 IF first(i)
                 THEN /\ out[place(i)].type = "file_operation"
                      /\ out[place(i)].action = "batch_operation"
                      /\ out[place(i)].parameters["operations"].items
                            = <<steps[i], steps[i + 1]>>
                 ELSE out[place(i)] = steps[i]

\* [A, B, C], all file operations, gives [merged(A, B), C]
C19_Witness ==
    /\ call.fn = "_optimize_steps"
    /\ ret.kind = "returned"
    /\ Len(call.steps) = 3
    /\ \A i \in 1..3 : call.steps[i].type = "file_operation"
    /\ Len(ret.value) = 2
    /\ ret.value[1].parameters["operations"].items
          = <<call.steps[1], call.steps[2]>>
    /\ ret.value[2] = call.steps[3]

\* C20: optimisation neither reorders nor drops nor duplicates: the
\* optimised list with every merged step replaced by the two steps it
\* carries is the input list, and every step that is no file_operation is
\* in the output as it was.
C20_ExpandGivesInput ==
    (call.fn = "_optimize_steps" /\ ret.kind = "returned") =>
        /\ Expand(ret.value) = call.steps
        /\ \A i \in 1..Len(call.steps) :
              call.steps[i].type # "file_operation"
                 => \E k \in 1..Len(ret.value) : ret.value[k] = call.steps[i]

\* a list with a merged pair, a step of another type and a single file
\* operation after it
C20_Witness ==
    /\ call.fn = "_optimize_steps"
    /\ ret.kind = "returned"
    /\ Len(call.steps) = 4
    /\ Len(ret.value) = 3
    /\ ret.value[1].action = "batch_operation"
    /\ ret.value[2] = call.steps[3]
    /\ ret.value[2].type = "condition"
    /\ ret.value[3] = call.steps[4]
    /\ ret.value[3].type = "file_operation"

\* C16: the classifier is total with two outcomes: a text whose
\* lower-cased, trimmed form matches some pattern gets the intent and
\* action of a rule with a matching pattern and confidence 0.9; every
\* other text gets general_query, ai_process, confidence 0.3 and the
\* original text as prompt.  No call fails.
C16_ClassifierTotalTwoOutcomes ==
    (call.fn = "analyze" /\ ret # NoRet) =>
        LET text_lower == StripText(Lower(call.text))
            matching ==
                {r \in 1..Len(Patterns) :
                    \E p \in 1..Len(Patterns[r].patterns) :
                        Search(Patterns[r].patterns[p], text_lower) # NoMatch}
        IN /\ ret.kind = "returned"
           /\ IF matching # {}
              THEN /\ ret.confidence = PatternConfidence
                   /\ \E r \in matching :
                         /\ ret.intent = Patterns[r].intent
                         /\ ret.action = Patterns[r].action
              ELSE /\ ret.intent = "general_query"
                   /\ ret.action = "ai_process"
                   /\ ret.confidence = FallbackConfidence
                   /\ ret.parameters = [k \in {"prompt"} |-> Str(call.text)]

\* a text that matches a pattern only once it is lower-cased
C16_Witness ==
    /\ call.fn = "analyze"
    /\ ret # NoRet
    /\ Hits(call.text) = {}
    /\ Hits(StripText(Lower(call.text))) # {}
    /\ ret.intent = "open_application"
    /\ ret.confidence = PatternConfidence

\* C17: precedence is registration order only: the result is that of the
\* first rule with a matching pattern, and its entities come from the
\* first matching pattern of that rule, wherever in the text the patterns
\* match.
C17_RegistrationOrderPrecedence ==
    (call.fn = "analyze" /\ ret # NoRet) =>
        LET text_lower == StripText(Lower(call.text))
            m(r, p) == Search(Patterns[r].patterns[p], text_lower)
        IN \A r \in 1..Len(Patterns) :
              \A p \in 1..Len(Patterns[r].patterns) :
                 (/\ m(r, p) # NoMatch
                  /\ \A r2 \in 1..r :
                        \A p2 \in 1..Len(Patterns[r2].patterns) :
                           (r2 < r \/ p2 < p) => m(r2, p2) = NoMatch)
                 => /\ ret.intent = Patterns[r].intent
                    /\ ret.action = Patterns[r].action
                    /\ ret.entities = Extract(Patterns[r].entity_extractor, m(r, p))

\* "find (.+)" of the second rule matches further left than "open (.+)"
\* of the first, and "run (.+)" of the first rule further left than its
\* "open (.+)": the result is that of "open (.+)"
C17_Witness ==
    /\ call.fn = "analyze"
    /\ ret # NoRet
    /\ LET text_lower == StripText(Lower(call.text))
           open == Search(Patterns[1].patterns[1], text_lower)
           run == Search(Patterns[1].patterns[4], text_lower)
           find == Search(Patterns[2].patterns[2], text_lower)
       IN /\ open # NoMatch /\ run # NoMatch /\ find # NoMatch
          /\ find.start < run.start
          /\ run.start < open.start
          /\ ret.intent = "open_application"
          /\ ret.entities = [k \in {"app_name"} |-> Str(<<"x">>)]

\* C26: a step whose nextStep names an id no step of the workflow has is
\* the last step of its run: when it succeeds the loop ends, nothing is
\* raised and the run returns completed with the results gathered so far.
C26_DanglingNextStepCompletes ==
    \A i \in 1..Len(executed) :
        (/\ executed[i].nextStep # <<>>
         /\ \A j \in 1..Len(workflow.steps) :
               workflow.steps[j].id # executed[i].nextStep
         /\ ~StepFails(executed[i], execution_context))
        => /\ i = Len(executed)
           /\ pc \in {"loop", "exit"} => current_step = NoStep
           /\ Finished =>
                 /\ outcome.kind = "returned"
                 /\ outcome.status = "completed"
                 /\ outcome.steps_executed = Len(executed)
                 /\ outcome.results = results
                 /\ DOMAIN results = {executed[k].id : k \in 1..Len(executed)}

\* a run of two steps, the second naming the id z, has returned
C26_Witness ==
    /\ Finished
    /\ outcome.kind = "returned"
    /\ outcome.status = "completed"
    /\ Len(executed) = 2
    /\ executed[2].nextStep = <<"z">>
    /\ outcome.steps_executed = 2
    /\ DOMAIN outcome.results = {<<"a">>, <<"b">>}

\* C28: a step of a type other than command, file_operation,
\* app_operation and delay, the type condition among them, makes
\* execute_workflow raise: it is the last step executed and the run gives
\* no result.
C28_UnknownStepTypeRaises ==
    \A i \in 1..Len(executed) :
        executed[i].type \notin {"command", "file_operation", "app_operation", "delay"}
        => /\ i = Len(executed)
           /\ pc = "idle"
           /\ outcome = Raised("ValueError: Unknown step type")

\* a chain reached its condition step, which complexity scoring counts,
\* and stopped there with the error, before the step that follows
C28_Witness ==
    /\ Finished
    /\ outcome = Raised("ValueError: Unknown step type")
    /\ Len(executed) = 2
    /\ executed[2].type = "condition"
    /\ CountType(workflow.steps, {"condition"}) = 1
    /\ Len(workflow.steps) = 3
    /\ GetNextStep(workflow.steps, executed[2]) = workflow.steps[3]

\* C29: execute_workflow on a stored workflow without steps raises before
\* any step is executed, and no execution returns steps_executed = 0.
C29_EmptyWorkflowRaises ==
    /\ (workflow # NoWorkflow /\ workflow.steps = <<>>) =>
          /\ pc = "idle"
          /\ executed = <<>>
          /\ outcome = Raised("IndexError")
    /\ (Finished /\ outcome.kind = "returned") => outcome.steps_executed >= 1

\* create_workflow stored a workflow without steps and its execution
\* raised
C29_Witness ==
    /\ Finished
    /\ workflow_id \in DOMAIN workflows
    /\ workflows[workflow_id].steps = <<>>
    /\ workflow = workflows[workflow_id]
    /\ outcome = Raised("IndexError")
    /\ executed = <<>>

\* C30: a merged step has the id of its first step with _merged added
\* and no nextStep, so it is the last step of every run that reaches it;
\* a workflow of optimised steps that begins with a merged step executes
\* that step alone and returns completed with steps_executed = 1.
C30_MergedStepEndsRun ==
    /\ \A i \in 1..Len(executed) :
          executed[i].action = "batch_operation" =>
             /\ executed[i].id =
                   executed[i].parameters["operations"].items[1].id \o <<"_merged">>
             /\ executed[i].nextStep = <<>>
             /\ i = Len(executed)
             /\ pc \in {"loop", "exit"} => current_step = NoStep
    /\ (/\ Finished
        /\ workflow # NoWorkflow
        /\ workflow.steps # <<>>
        /\ workflow.steps[1].action = "batch_operation")
       => /\ outcome.kind = "returned"
          /\ outcome.status = "completed"
          /\ outcome.steps_executed = 1
          /\ executed = <<workflow.steps[1]>>

\* the workflow [merged(A, B), C] has been executed: one step, C never
C30_Witness ==
    /\ Finished
    /\ workflow # NoWorkflow
    /\ Len(workflow.steps) = 2
    /\ workflow.steps[1].action = "batch_operation"
    /\ workflow.steps[1].parameters["operations"].items[2].nextStep
          = workflow.steps[2].id
    /\ workflow.steps[2].type = "file_operation"
    /\ outcome.kind = "returned"
    /\ outcome.steps_executed = 1
    /\ DOMAIN outcome.results = {<<"1", "_merged">>}

\* C27: for an open_application match the app_name entity is the text
\* after the matched prefix, trimmed, with trailing punctuation removed.
C27_AppNameWithoutTrailingPunctuation ==
    (call.fn = "analyze" /\ ret # NoRet /\ ret.intent = "open_application") =>
        LET text_lower == StripText(Lower(call.text))
            rp == CHOOSE rp \in Hits(text_lower) :
                      \A other \in Hits(text_lower) :
                          \/ rp[1] < other[1]
                          \/ rp[1] = other[1] /\ rp[2] <= other[2]
            after == Search(Patterns[rp[1]].patterns[rp[2]], text_lower).group1
        IN ret.entities["app_name"] =
              Str(RstripChars(StripText(after), TrailingPunctuation))

\* C21: execute never raises: whatever the command, the parameters and
\* the shell, it returns a result that has a response text and a
\* confidence.
C21_ExecuteNeverRaises ==
    (call.fn = "execute" /\ ret # NoRet) =>
        /\ ret.kind = "returned"
        /\ {"response", "confidence"} \subseteq DOMAIN ret.value
        /\ ret.value.response.kind = "str"
        /\ ret.value.confidence \in 0..100

\* the shell wrote bytes that do not decode: a result all the same
C21_Witness ==
    /\ call.fn = "execute"
    /\ ret # NoRet
    /\ ret.handler = "_handle_generic_command"
    /\ ret.shell_command = call.command
    /\ ret.value.response = Str(<<"Command execution error: ", "UnicodeDecodeError">>)
    /\ ret.value.confidence = 0

\* C22: every dispatch whose handling fails, by an exception in routing
\* or in a handler or by a shell command that does not exit with 0,
\* returns confidence 0.0 and a response that is not empty.
C22_FailureHasZeroConfidence ==
    (/\ call.fn = "execute"
     /\ ret # NoRet
     /\ \/ ret.handler = "execute"
        \/ ret.handler = "_handle_generic_command" /\ ~ret.value.success)
    => /\ ret.value.confidence = 0
       /\ ret.value.response.s # <<>>

\* C23: a command is handled by the handler of the first test it
\* satisfies: launch prefix (its first word is open, launch or start),
\* close prefix (close, quit, exit), contains search, find or locate,
\* contains copy, move, delete or backup, contains what time or what
\* date, else generic.
C23_RoutingPriority ==
    (call.fn = "execute" /\ ret # NoRet /\ call.command # None) =>
        LET command_lower == StripText(Lower(call.command.s))
            starts(keywords) ==
                \E kw \in keywords :
                    \/ command_lower = kw
                    \/ Startswith(command_lower, kw \o <<" ">>)
            holds(keywords) == \E kw \in keywords : Contains(command_lower, kw)
        IN ret.handler =
              IF starts({<<"o", "p", "e", "n">>, <<"l", "a", "u", "n", "c", "h">>, <<"s", "t", "a", "r", "t">>})
              THEN "_handle_application_launch"
              ELSE IF starts({<<"c", "l", "o", "s", "e">>, <<"q", "u", "i", "t">>, <<"e", "x", "i", "t">>})
              THEN "_handle_application_close"
              ELSE IF holds({<<"s", "e", "a", "r", "c", "h">>, <<"f", "i", "n", "d">>, <<"l", "o", "c", "a", "t", "e">>})
              THEN "_handle_file_search"
              ELSE IF holds({<<"c", "o", "p", "y">>, <<"m", "o", "v", "e">>, <<"d", "e", "l", "e", "t", "e">>, <<"b", "a", "c", "k", "u", "p">>})
              THEN "_handle_file_operation"
              ELSE IF holds({<<"w", "h", "a", "t", " ", "t", "i", "m", "e">>, <<"w", "h", "a", "t", " ", "d", "a", "t", "e">>})
              THEN "_handle_system_info"
              ELSE "_handle_generic_command"

\* C24: a command `<open|launch|start> <name>` whose name is not empty
\* once trimmed and without trailing punctuation is handled by the launch
\* handler, with confidence >= 0.9 and an application name; the
\* application name is the name itself when it holds none of the words
\* the handler leaves out.
C24_LaunchReturnsAppName ==
    (call.fn = "execute" /\ ret # NoRet /\ call.command # None) =>
        LET command_lower == StripText(Lower(call.command.s)) IN
        \A kw \in {<<"o", "p", "e", "n">>, <<"l", "a", "u", "n", "c", "h">>, <<"s", "t", "a", "r", "t">>} :
            LET rest == SubSeq(command_lower, Len(kw) + 2, Len(command_lower))
                name == RstripChars(StripText(rest), TrailingPunctuation)
            IN (Startswith(command_lower, kw \o <<" ">>) /\ name # <<>>) =>
                  /\ ret.handler = "_handle_application_launch"
                  /\ ret.value.confidence >= 90
                  /\ "application" \in DOMAIN ret.value
                  /\ ret.value.application.s # <<>>
                  /\ (~Contains(name, <<" ", "t", "h", "e", " ">>) /\ ~Contains(name, <<" ", "m", "y", " ">>))
                        => ret.value.application = Str(StripText(name))

\* `Open x` (and `Open x.`) launch x
C24_Witness ==
    /\ call.fn = "execute"
    /\ ret # NoRet
    /\ call.command \in {Str(<<"O", "p", "e", "n", " ", "x">>), Str(<<"O", "p", "e", "n", " ", "x", ".">>)}
    /\ ret.handler = "_handle_application_launch"
    /\ ret.value.application = Str(<<"x">>)
    /\ ret.value.confidence = 90
    /\ ret.value.response = Str(<<"Launching ", "x">>)

\* C25: a launch keyword without a target (the keyword alone, or a target
\* that is empty without its trailing punctuation) gives confidence
\* <= 0.3 and no application name, and no shell command is run.
C25_LaunchWithoutTarget ==
    (call.fn = "execute" /\ ret # NoRet /\ call.command # None) =>
        LET command_lower == StripText(Lower(call.command.s)) IN
        \A kw \in {<<"o", "p", "e", "n">>, <<"l", "a", "u", "n", "c", "h">>, <<"s", "t", "a", "r", "t">>} :
            (\/ command_lower = kw
             \/ /\ Startswith(command_lower, kw \o <<" ">>)
                /\ RstripChars(StripText(SubSeq(command_lower, Len(kw) + 2,
                                                Len(command_lower))),
                               TrailingPunctuation) = <<>>)
            => /\ ret.value.confidence <= 30
               /\ "application" \notin DOMAIN ret.value
               /\ ret.shell_command = None

====
